---- MODULE Spec2Model ----
(***************************************************************************)
(* State-machine model of the agent tools of kg-inference:                 *)
(*   src/src/tools.py         validate_schema, validate_data,              *)
(*                            validate_owl_ontology, WorkDir,              *)
(*                            search_external_ontology,                    *)
(*                            search_project_ontology, retrieve_web_page   *)
(*   src/src/linkml_agent.py  validate_then_save_schema                    *)
(*   specification 4.3        merge_and_check (its code is not in src/)    *)
(* The tool functions are coroutines without an await in their bodies, so  *)
(* each call runs to completion in one step of the event loop: one action  *)
(* per call.  Every action leaves a record of the call in `last`: its      *)
(* input, how it ended (return / raise), the result, the ordered list of   *)
(* steps the call went through, and whether the call repeats the call      *)
(* before it (same tool, same input).                                      *)
(***************************************************************************)
EXTENDS Integers, Sequences, FiniteSets, TLC

VARIABLES
    workdir,        \* WorkDir: file name -> file (exists, content)
    default_world,  \* owlready2's process-wide default_world
    data_store,     \* the document at data_path (the persisted fact store)
    disk,           \* a WorkDir object's location and the files under it
    last            \* record of the last tool call

vars == <<workdir, default_world, data_store, disk, last>>

None == "<None>"

\* a file of the file system: absent, or present with its content
File(content) == [exists |-> TRUE, content |-> content]
Absent(blank) == [exists |-> FALSE, content |-> blank]

(***************************************************************************)
(* Sequence helpers.                                                       *)
(***************************************************************************)
Range(s) == {s[i] : i \in 1..Len(s)}

\* all sequences over S of length 0..n
SeqsUpTo(S, n) == UNION {[1..k -> S] : k \in 0..n}

\* Python's `sub in s` for str: sub occurs as a contiguous slice of s
IsSlice(sub, s) ==
    \E i \in 0..(Len(s) - Len(sub)) :
        \A j \in 1..Len(sub) : s[i + j] = sub[j]

(***************************************************************************)
(* Schema texts.  A text is described by what the libraries make of it:    *)
(*   yaml  - the value yaml.safe_load returns, or YamlError when it raises *)
(*   loads - whether yaml_loader.loads(text, SchemaDefinition) succeeds    *)
(*   gen   - whether JsonSchemaGenerator(schema).serialize() succeeds      *)
(* A YAML value is a mapping (the sequence of its top-level keys), a list   *)
(* (its elements), a scalar string (its characters), an integer or None.   *)
(***************************************************************************)
YamlError == [kind |-> "error", val |-> <<>>]
YamlNone  == [kind |-> "none", val |-> <<>>]
YamlInt   == [kind |-> "int", val |-> <<>>]
YamlMap(keys)  == [kind |-> "map", val |-> keys]
YamlList(elts) == [kind |-> "list", val |-> elts]
YamlStr(chars) == [kind |-> "str", val |-> chars]

\* the key sequences of the mappings: every selection of id, name, classes
TopLevelKeys ==
    { SelectSeq(<<"id", "name", "classes">>, LAMBDA k : k \in S) :
        S \in SUBSET {"id", "name", "classes"} }

Chars(key) ==
    CASE key = "id"   -> <<"i", "d">>
      [] key = "name" -> <<"n", "a", "m", "e">>

ScalarStrings ==
    { <<"i", "d">>, <<"n", "a", "m", "e">>, <<"v", "a", "l", "i", "d">>,
      <<"x">>, <<"i", "d", " ", "n", "a", "m", "e">> }

YamlLists == { <<>>, <<"id">>, <<"id", "name">> }

\* the schema texts the tools are called with
SchemaTexts ==
    { [yaml |-> y, loads |-> FALSE, gen |-> FALSE] :
        y \in {YamlError, YamlNone, YamlInt}
              \cup {YamlStr(c) : c \in ScalarStrings}
              \cup {YamlList(l) : l \in YamlLists} }
    \cup
    { [yaml |-> YamlMap(k), loads |-> l, gen |-> g] :
        k \in TopLevelKeys, l \in BOOLEAN, g \in BOOLEAN }

\* whether Python's `key in value` raises TypeError: None and int are not
\* containers
InRaises(value) == value.kind \in {"none", "int"}

\* the truth value of Python's `key in value` for a container value: a key of
\* a dict, an element of a list, a substring of a str
In(key, value) ==
    CASE value.kind = "map"  -> key \in Range(value.val)
      [] value.kind = "list" -> key \in Range(value.val)
      [] value.kind = "str"  -> IsSlice(Chars(key), value.val)
      [] OTHER               -> FALSE

(***************************************************************************)
(* Results.  A message is a template with the value formatted into it.     *)
(***************************************************************************)
Msg(text, arg) == [text |-> text, arg |-> arg]

\* a plausible slip: the messages collected are not put into the result
ValidationResult_without_messages(valid, info_messages) ==
    [valid |-> valid, info_messages |-> <<>>]

ValidationResult(valid, info_messages) ==
    [valid |-> valid, info_messages |-> info_messages]

NoResult == ValidationResult(FALSE, <<>>)

\* a call that returned `result`
Returned(op, input, result, steps) ==
    [op |-> op, input |-> input, outcome |-> "return", exc |-> None,
     result |-> result, error |-> Msg("", ""), steps |-> steps,
     again |-> FALSE]

\* a call that raised exception class `exc` with message `error`
Raised(op, input, exc, error, steps) ==
    [op |-> op, input |-> input, outcome |-> "raise", exc |-> exc,
     result |-> NoResult, error |-> error, steps |-> steps,
     again |-> FALSE]

NoCall ==
    [op |-> "none", input |-> None, outcome |-> "none", exc |-> None,
     result |-> NoResult, error |-> Msg("", ""), steps |-> <<>>,
     again |-> FALSE]

(***************************************************************************)
(* tools.py validate_schema                                                *)
(***************************************************************************)
\* a plausible slip: the presence checks look at another key than `name`
MissingFieldMsgs_wrong_key(doc) ==
    (IF ~In("id", doc)
        THEN << Msg("Schema does not have a top level id", "") >> ELSE <<>>)
    \o
    (IF "classes" \notin Range(doc.val)
        THEN << Msg("Schema does not have a top level name", "") >> ELSE <<>>)

\* msgs after the two presence checks (tools.py 304-307), id first
MissingFieldMsgs(doc) ==
    (IF ~In("id", doc)
        THEN << Msg("Schema does not have a top level id", "") >> ELSE <<>>)
    \o
    (IF ~In("name", doc)
        THEN << Msg("Schema does not have a top level name", "") >> ELSE <<>>)

\* a plausible slip: the except branch records its message but does not
\* return, so the presence checks run as well
YamlErrorReturn_falls_through(s) ==
    Returned("validate_schema", s,
        ValidationResult(FALSE,
            << Msg("Schema is not valid yaml: ", "e"),
               Msg("Schema does not have a top level id", ""),
               Msg("Schema does not have a top level name", "") >>),
        << "yaml.safe_load", "id in", "name in" >>)

\* the except branch of yaml.safe_load (tools.py 301-303)
YamlErrorReturn(s) ==
    Returned("validate_schema", s,
        ValidationResult(FALSE, << Msg("Schema is not valid yaml: ", "e") >>),
        << "yaml.safe_load" >>)

\* the record of the call validate_schema(schema_as_str)
validate_schema_call(s) ==
    IF s.yaml = YamlError
    THEN YamlErrorReturn(s)
    ELSE IF InRaises(s.yaml)
    THEN Raised("validate_schema", s, "TypeError",
            Msg("argument of type is not iterable", s.yaml.kind),
            << "yaml.safe_load", "id in" >>)
    ELSE IF MissingFieldMsgs(s.yaml) # <<>>
    THEN Returned("validate_schema", s,
            ValidationResult(FALSE, MissingFieldMsgs(s.yaml)),
            << "yaml.safe_load", "id in", "name in" >>)
    ELSE IF ~s.loads
    THEN Returned("validate_schema", s,
            ValidationResult(FALSE, << Msg("Schema does not validate: ", "e") >>),
            << "yaml.safe_load", "id in", "name in", "yaml_loader.loads" >>)
    ELSE Returned("validate_schema", s,
            ValidationResult(TRUE, <<>>),
            << "yaml.safe_load", "id in", "name in", "yaml_loader.loads" >>)

validate_schema ==
    \E s \in SchemaTexts :
        /\ last' = validate_schema_call(s)
        /\ UNCHANGED <<workdir, default_world, data_store, disk>>

(***************************************************************************)
(* tools.py / dependencies.py WorkDir: a directory as a map from file      *)
(* names to contents.                                                      *)
(***************************************************************************)
FileNames == {"schema.yaml", "draft.yaml"}

\* the text of length 0: YAML loads it as None
EmptyText == [yaml |-> YamlNone, loads |-> FALSE, gen |-> FALSE]

check_file_exists(wd, file_path) == wd[file_path].exists

write_file(wd, file_path, content) ==
    [wd EXCEPT ![file_path] = File(content)]

(***************************************************************************)
(* linkml_agent.py validate_then_save_schema                               *)
(***************************************************************************)
\* the exception classes that are ModelRetry, the retry signal of the agent
\* loop: LinkMLError derives from ModelRetry, SchemaValidationError from
\* LinkMLError
ModelRetryClasses == {"ModelRetry", "LinkMLError", "SchemaValidationError"}

\* isinstance(exc, ModelRetry)
IsModelRetry(exc) == exc \in ModelRetryClasses

\* save_to_file arguments: a file name, or the empty string (falsy: no save)
SaveTargets == FileNames \cup {""}

SaveInput(s, f) == [schema_as_str |-> s, save_to_file |-> f]

\* the record of the call validate_then_save_schema(ctx, s, f)
validate_then_save_schema_call(s, f) ==
    LET op == "validate_then_save_schema"
        in == SaveInput(s, f)
    IN
    IF s.yaml = YamlError
    THEN Raised(op, in, "SchemaValidationError",
            Msg("Schema is not valid yaml: ", "e"), << "yaml.safe_load" >>)
    ELSE IF InRaises(s.yaml)
    THEN Raised(op, in, "TypeError",
            Msg("argument of type is not iterable", s.yaml.kind),
            << "yaml.safe_load", "id in" >>)
    ELSE IF ~In("id", s.yaml)
    THEN Raised(op, in, "SchemaValidationError",
            Msg("Schema does not have a top level id", ""),
            << "yaml.safe_load", "id in" >>)
    ELSE IF ~In("name", s.yaml)
    THEN Raised(op, in, "SchemaValidationError",
            Msg("Schema does not have a top level name", ""),
            << "yaml.safe_load", "id in", "name in" >>)
    ELSE IF ~s.loads
    THEN Raised(op, in, "ModelRetry",
            Msg("Schema does not validate: ", "e"),
            << "yaml.safe_load", "id in", "name in", "yaml_loader.loads" >>)
    ELSE IF ~s.gen
    THEN Raised(op, in, "Exception",
            Msg("JsonSchemaGenerator", "e"),
            << "yaml.safe_load", "id in", "name in", "yaml_loader.loads",
               "gen.serialize" >>)
    ELSE IF f # ""
    THEN Returned(op, in,
            ValidationResult(TRUE, << Msg("Writing schema to ", f) >>),
            << "yaml.safe_load", "id in", "name in", "yaml_loader.loads",
               "gen.serialize", "write_file" >>)
    ELSE Returned(op, in, ValidationResult(TRUE, <<>>),
            << "yaml.safe_load", "id in", "name in", "yaml_loader.loads",
               "gen.serialize" >>)

\* a plausible slip: the schema is written before it is validated
SavedWorkdir_write_first(wd, call) ==
    IF call.input.save_to_file # ""
    THEN write_file(wd, call.input.save_to_file, call.input.schema_as_str)
    ELSE wd

\* the working directory after the call: write_file is the call's last step
SavedWorkdir(wd, call) ==
    IF "write_file" \in Range(call.steps)
    THEN write_file(wd, call.input.save_to_file, call.input.schema_as_str)
    ELSE wd

validate_then_save_schema ==
    \E s \in SchemaTexts, f \in SaveTargets :
        /\ last' = validate_then_save_schema_call(s, f)
        /\ workdir' = SavedWorkdir(workdir, validate_then_save_schema_call(s, f))
        /\ UNCHANGED <<default_world, data_store, disk>>

(***************************************************************************)
(* OWL contents.  A content is a sequence of text pieces: the code fence   *)
(* (three backticks), a language tag, white space, and RDF/XML documents   *)
(* standing for the documents of tests/test_tools.py: a class Concept      *)
(* (consistent), a class Concept equivalent to its own complement          *)
(* (inconsistent), and the first document with its closing tag cut (not    *)
(* well-formed).                                                           *)
(***************************************************************************)
Fence == "<three backticks>"
Tag == "xml"
Newline == "\n"
BlankLine == "\n\n"
DocConcept == "<rdf:RDF><owl:Class Concept/></rdf:RDF>"
DocNotItself == "<rdf:RDF><owl:Class Concept = not Concept/></rdf:RDF>"
DocUnclosed == "<rdf:RDF><owl:Class Concept/></rdf:RDF"

Whitespace == {Newline, BlankLine}
WellFormedDocs == {DocConcept, DocNotItself}

\* the pieces the contents are put together from
ContentSegments ==
    { <<DocConcept>>, <<DocNotItself>>, <<DocUnclosed>>, <<Newline>>, <<Fence>>,
      <<Fence, Tag, Newline, DocConcept, Newline, Fence>>,
      <<Fence, DocNotItself, Fence>> }

MaxSegments == 2

RECURSIVE Concat(_)
Concat(ss) == IF ss = <<>> THEN <<>> ELSE Head(ss) \o Concat(Tail(ss))


\* str.strip(): the text without its leading and trailing white space
strip(text) ==
    LET solid == {i \in 1..Len(text) : text[i] \notin Whitespace}
    IN  IF solid = {} THEN <<>>
        ELSE SubSeq(text,
                    CHOOSE i \in solid : \A j \in solid : i <= j,
                    CHOOSE i \in solid : \A j \in solid : i >= j)

\* the first position >= i of a fence in text, 0 when there is none
NextFence(text, i) ==
    LET at == {p \in i..Len(text) : text[p] = Fence}
    IN  IF at = {} THEN 0 ELSE CHOOSE p \in at : \A q \in at : p <= q

\* the first position >= i that holds no white space
RECURSIVE SkipSpace(_, _)
SkipSpace(text, i) ==
    IF i <= Len(text) /\ text[i] \in Whitespace
    THEN SkipSpace(text, i + 1) ELSE i

\* re.findall(pattern, text) from position i, for the pattern of tools.py 410
\* (fence, optional tag, white space, lazy group, fence):
\* the captured groups of the successive non-overlapping matches
RECURSIVE findall(_, _)
findall(text, i) ==
    LET open  == NextFence(text, i)
        inner == IF open + 1 <= Len(text) /\ text[open + 1] = Tag
                 THEN open + 2 ELSE open + 1
        start == SkipSpace(text, inner)
        close == NextFence(text, start)
    IN  IF open = 0 \/ close = 0 THEN <<>>
        ELSE << SubSeq(text, start, close - 1) >> \o findall(text, close + 1)

\* "\n\n".join(matches)
RECURSIVE join(_)
join(matches) ==
    IF Len(matches) = 0 THEN <<>>
    ELSE IF Len(matches) = 1 THEN matches[1]
    ELSE matches[1] \o <<BlankLine>> \o join(Tail(matches))

\* a plausible slip: the fenced blocks are not looked for
Unfenced_keeps_fences(owl_content) == strip(owl_content)

\* the text validate_owl_ontology hands to the loader (tools.py 409-413)
Unfenced(owl_content) ==
    LET stripped == strip(owl_content)
        matches  == findall(stripped, 1)
    IN  IF matches # <<>> THEN join(matches) ELSE stripped

\* the contents validate_owl_ontology is called with: up to MaxSegments
\* segments, leaving some text to load (what the loader makes of an empty
\* file is not settled by this code)
OwlContents ==
    { c \in {Concat(ss) : ss \in SeqsUpTo(ContentSegments, MaxSegments)} :
        \E i \in 1..Len(Unfenced(c)) : Unfenced(c)[i] \notin Whitespace }

(***************************************************************************)
(* owlready2: the loader and the reasoner.                                 *)
(***************************************************************************)
\* the text without its white space
Solid(text) == SelectSeq(text, LAMBDA t : t \notin Whitespace)

\* Ontology.load(fileobj) raises OwlReadyOntologyParsingError unless the text
\* is one well-formed document
ParsingError(text) ==
    ~ ( Len(Solid(text)) = 1 /\ Solid(text)[1] \in WellFormedDocs )

\* the axioms of a text that parses
Axioms(text) == Range(Solid(text))

\* sync_reasoner raises OwlReadyInconsistentOntologyError when the world
\* holds a class equivalent to its complement
Inconsistent(world) == DocNotItself \in world.axioms

EmptyWorld == [loaded |-> FALSE, axioms |-> {}]

(***************************************************************************)
(* tools.py validate_owl_ontology.  get_ontology is owlready2's module     *)
(* function: it looks the base IRI up in default_world and returns the     *)
(* ontology registered there.  Ontology.load returns at once when the      *)
(* ontology is already loaded.                                             *)
(***************************************************************************)
\* a plausible slip: the parsing error is recorded and reasoning goes on
LoadFailed_goes_on(world, text) == FALSE

\* the load step of the call raises (tools.py 419-426)
LoadFailed(world, text) == ~world.loaded /\ ParsingError(text)

\* a plausible slip: the content is written to the fact store when it fails
StoreAfterOwl_dumps(store, owl_content, valid) ==
    IF valid THEN store ELSE File(owl_content)

\* the fact store after validate_owl_ontology: the function opens no file
StoreAfterOwl(store, owl_content, valid) == store

\* a plausible slip: the ontology counts as loaded once load was called,
\* whether or not the text parsed
Loaded_marks_failed(world, text) ==
    IF world.loaded THEN world
    ELSE [loaded |-> TRUE,
          axioms |-> IF ParsingError(text) THEN world.axioms
                     ELSE world.axioms \cup Axioms(text)]

\* the world after the load step
Loaded(world, text) ==
    IF world.loaded \/ ParsingError(text) THEN world
    ELSE [loaded |-> TRUE, axioms |-> world.axioms \cup Axioms(text)]

\* the record of the call validate_owl_ontology(owl_content) in `world`
validate_owl_ontology_call(world, owl_content) ==
    LET op   == "validate_owl_ontology"
        text == Unfenced(owl_content)
    IN
    IF LoadFailed(world, text)
    THEN Returned(op, owl_content,
            ValidationResult(FALSE, << Msg("Error parsing OWL content: ", "e") >>),
            << "get_ontology", "load" >>)
    ELSE IF Inconsistent(Loaded(world, text))
    THEN Returned(op, owl_content,
            ValidationResult(FALSE,
                << Msg("OWL ontology is logically inconsistent.", "") >>),
            << "get_ontology", "load", "sync_reasoner" >>)
    ELSE Returned(op, owl_content, ValidationResult(TRUE, <<>>),
            << "get_ontology", "load", "sync_reasoner" >>)

validate_owl_ontology ==
    \E owl_content \in OwlContents :
        LET call == validate_owl_ontology_call(default_world, owl_content)
            again == last.op = "validate_owl_ontology" /\ last.input = owl_content
        IN  /\ last' = [call EXCEPT !.again = again]
            /\ default_world' = Loaded(default_world, Unfenced(owl_content))
            /\ data_store' =
                 StoreAfterOwl(data_store, owl_content, call.result.valid)
            /\ UNCHANGED <<workdir, disk>>

(***************************************************************************)
(* tools.py validate_data.  The schema at schema_path is the schema of     *)
(* tests/test_tools.py: one class Person with an identifier, a required    *)
(* full_name and an integer age between minimum_value and maximum_value.   *)
(***************************************************************************)
DeclaredClasses == {"Person"}

minimum_value == 0
maximum_value == 120

\* the namespace the generated Python module is executed in: exec() puts
\* __builtins__ into it beside the names the module defines
local_namespace == DeclaredClasses \cup {"__builtins__"}

\* instances in Turtle: well-formed or not, with the identifier and the age
\* they state
Instance(syntax_ok, id, age) == [syntax_ok |-> syntax_ok, id |-> id, age |-> age]

ClarkKent == Instance(TRUE, "ORCID:1234", 30)
ClarkKent330 == Instance(TRUE, "ORCID:1234", 330)
Garbled == Instance(FALSE, "", 0)

\* the (class_name, instance) pairs of the batches
DataItems ==
    { <<"Person", ClarkKent>>, <<"Person", ClarkKent330>>, <<"Person", Garbled>>,
      <<"Ghost", ClarkKent>>, <<"__builtins__", ClarkKent>> }

MaxBatch == 2

DataBatches == SeqsUpTo(DataItems, MaxBatch)

\* a plausible slip: the loader accepts any target the namespace holds
LoadsRaises_syntax_only(class_name, instance) == ~instance.syntax_ok

\* rdflib_loader.loads raises: the Turtle does not parse, or the target is
\* not a class generated from the schema
LoadsRaises(class_name, instance) ==
    ~instance.syntax_ok \/ class_name \notin DeclaredClasses

\* a plausible slip: only the lower bound of age is checked
Report_no_maximum(instance) ==
    IF instance.age < minimum_value
    THEN << Msg("{instance}: {m.message} ({m.type})", instance.id) >>
    ELSE <<>>

\* the results of linkml's validate(instance, schema), as messages
Report(instance) ==
    IF instance.age < minimum_value \/ instance.age > maximum_value
    THEN << Msg("{instance}: {m.message} ({m.type})", instance.id) >>
    ELSE <<>>

\* local_namespace[class_name] does not raise KeyError (tools.py 355-358)
KnownName(class_name) == class_name \in local_namespace

\* the loop of validate_data from item i on, `steps` being the steps so far
RECURSIVE validate_data_loop(_, _, _)
validate_data_loop(data, i, steps) ==
    LET op == "validate_data"
        class_name == data[i][1]
        instance   == data[i][2]
    IN
    IF i > Len(data)
    THEN Returned(op, data, ValidationResult(TRUE, <<>>), steps)
    ELSE IF ~KnownName(class_name)
    THEN Raised(op, data, "ModelRetry",
            Msg("Class not in schema: ", class_name),
            steps \o << "local_namespace" >>)
    ELSE IF LoadsRaises(class_name, instance)
    THEN Raised(op, data, "ModelRetry",
            Msg("Data does not validate: ", "e"),
            steps \o << "local_namespace", "rdflib_loader.loads" >>)
    ELSE IF Report(instance) # <<>>
    THEN Returned(op, data, ValidationResult(FALSE, Report(instance)),
            steps \o << "local_namespace", "rdflib_loader.loads", "validate" >>)
    ELSE validate_data_loop(data, i + 1,
            steps \o << "local_namespace", "rdflib_loader.loads", "validate" >>)

\* the record of the call validate_data(ctx, prefixes, data)
validate_data_call(data) == validate_data_loop(data, 1, <<>>)

validate_data ==
    \E data \in DataBatches :
        /\ last' = validate_data_call(data)
        /\ UNCHANGED <<workdir, default_world, data_store, disk>>

(***************************************************************************)
(* OntologyConsistencyChecker.merge_and_check.  The function that merges   *)
(* the prior facts and commits to data_path is not among the source files; *)
(* it is modelled after section 4.3 of the specification, step by step.    *)
(***************************************************************************)
\* the ontologies derived from the schema
OntologyModels == { <<DocConcept>>, <<DocNotItself>>, <<DocUnclosed>> }

\* the fact documents proposed to merge_and_check
FactDocuments ==
    { <<DocConcept>>,
      <<Fence, Tag, Newline, DocConcept, Newline, Fence>>,
      <<DocNotItself>>,
      <<DocUnclosed>>,
      <<Newline, Fence, DocConcept, Fence, Newline>> }

\* the store is capped at this many documents
MaxStoredDocs == 4

\* steps 3-5: a document fails to load when a piece of it is neither white
\* space nor a well-formed document
FactsParsingError(text) ==
    \E i \in 1..Len(text) : text[i] \notin Whitespace \cup WellFormedDocs

\* step 4: the prior facts, an empty fact set when there are none
PriorFacts(store) == IF store.exists THEN store.content ELSE <<>>

\* a slip: the commit replaces the store by the new facts
Commit_overwrites(store, new_facts) == File(new_facts)

\* step 9: prior facts, a blank line, the new facts; the new facts alone when
\* there were no prior facts
Commit(store, new_facts) ==
    IF store.exists
    THEN File(store.content \o <<BlankLine>> \o new_facts)
    ELSE File(new_facts)

MergeInput(ontology, new_facts) == [ontology |-> ontology, new_facts |-> new_facts]

\* the record of the call merge_and_check(ontology, prior_facts, new_facts)
merge_and_check_call(ontology, store, new_facts) ==
    LET op    == "merge_and_check"
        in    == MergeInput(ontology, new_facts)
        facts == Unfenced(new_facts)
        world == [loaded |-> TRUE,
                  axioms |-> Axioms(ontology) \cup Axioms(PriorFacts(store))
                                \cup Axioms(facts)]
    IN
    IF \/ FactsParsingError(ontology)
       \/ FactsParsingError(PriorFacts(store))
       \/ FactsParsingError(facts)
    THEN Raised(op, in, "OntologyParseError", Msg("parse error", "e"),
            << "strip", "world", "load" >>)
    ELSE IF Inconsistent(world)
    THEN Raised(op, in, "OntologyInconsistencyError",
            Msg("inconsistent", "explanation"),
            << "strip", "world", "load", "reason" >>)
    ELSE Returned(op, in, ValidationResult(TRUE, <<>>),
            << "strip", "world", "load", "reason", "commit" >>)

merge_and_check ==
    \E ontology \in OntologyModels, new_facts \in FactDocuments :
        LET call == merge_and_check_call(ontology, data_store, new_facts)
        IN  /\ Len(Solid(PriorFacts(data_store))) < MaxStoredDocs
            /\ last' = call
            /\ data_store' =
                 IF call.outcome = "return"
                 THEN Commit(data_store, Unfenced(new_facts))
                 ELSE data_store
            /\ UNCHANGED <<workdir, default_world, disk>>

(***************************************************************************)
(* tools.py search_external_ontology / search_project_ontology.  The       *)
(* ontology access library is the environment: for a call it either fails  *)
(* at one of its three steps with some exception, or it yields the list of *)
(* (id, label) pairs of all the matches.                                   *)
(***************************************************************************)
Terms == {"eye", "eye defect"}

\* Settings.data_path as a string
data_path == "output/data.xml"

ExternalOntologies == {"ols:mondo", "sqlite:obo:hp"}

\* the longest list of matches, and the largest n, of the calls
MaxResults == 3
MaxN == 3

\* the k-th (id, label) pair an adapter finds
Pair(k) == [id |-> k, label |-> k]

\* the full result lists of the adapters
FullResults == {[k \in 1..len |-> Pair(k)] : len \in 0..MaxResults}

\* the steps of the try block, in order
AdapterSteps == << "get_adapter", "basic_search", "labels" >>

\* exceptions the library raises: unknown scheme (ValueError), failed
\* download (URLError), unknown prefix (KeyError), and, from the HTTP client
\* of the lookup service, connection failure and timeout
AdapterFailures ==
    {"ValueError", "URLError", "KeyError", "ConnectionError", "Timeout"}

\* the classes of the except clause
CaughtBySearch == {"ValueError", "URLError", "KeyError"}

\* what the library does in a call
AdapterBehaviours ==
    { [fails |-> None, at |-> 0, results |-> r] : r \in FullResults }
    \cup
    { [fails |-> e, at |-> k, results |-> <<>>] :
        e \in AdapterFailures, k \in 1..Len(AdapterSteps) }

\* Python's results[:n]
SliceTo(results, n) ==
    IF n >= 0
    THEN SubSeq(results, 1, IF n < Len(results) THEN n ELSE Len(results))
    ELSE SubSeq(results, 1, IF Len(results) + n > 0 THEN Len(results) + n ELSE 0)

SearchInput(term, ontology, n, adapter) ==
    [term |-> term, ontology |-> ontology, n |-> n, adapter |-> adapter]

\* the record of the call search_external_ontology(term, ontology, n)
search_external_ontology_call(term, ontology, n, adapter) ==
    LET op == "search_external_ontology"
        in == SearchInput(term, ontology, n, adapter)
    IN
    IF adapter.fails # None
    THEN IF adapter.fails \in CaughtBySearch
         THEN Returned(op, in, <<>>, SubSeq(AdapterSteps, 1, adapter.at))
         ELSE Raised(op, in, adapter.fails, Msg("", "e"),
                  SubSeq(AdapterSteps, 1, adapter.at))
    ELSE Returned(op, in,
            IF n # 0 THEN SliceTo(adapter.results, n) ELSE adapter.results,
            AdapterSteps)

search_external_ontology ==
    \E term \in Terms, ontology \in ExternalOntologies, n \in 0..MaxN,
       adapter \in AdapterBehaviours :
        /\ last' = search_external_ontology_call(term, ontology, n, adapter)
        /\ UNCHANGED <<workdir, default_world, data_store, disk>>

\* the record of the call search_project_ontology(ctx, term, n)
search_project_ontology_call(term, n, adapter) ==
    [ search_external_ontology_call(term, data_path, n, adapter)
        EXCEPT !.op = "search_project_ontology" ]

search_project_ontology ==
    \E term \in Terms, n \in 0..MaxN, adapter \in AdapterBehaviours :
        /\ last' = search_project_ontology_call(term, n, adapter)
        /\ UNCHANGED <<workdir, default_world, data_store, disk>>

(***************************************************************************)
(* tools.py retrieve_web_page.  The web server is the environment: the     *)
(* request fails in transport, or a response arrives with a status code    *)
(* and a page whose text is described by its length as markdown.           *)
(***************************************************************************)
Urls == {"http://example.com", "http://example.com/long"}

max_length == 10000

\* len() of the truncation notice
notice_length == 72

StatusCodes == {200, 404, 500}

PageLengths ==
    {0, max_length - 1, max_length, max_length + 1, max_length + max_length \div 2}

Responses ==
    { [kind |-> k, status |-> 0, length |-> 0] : k \in {"ConnectionError", "Timeout"} }
    \cup
    { [kind |-> "response", status |-> c, length |-> l] :
        c \in StatusCodes, l \in PageLengths }

\* a text, by its length and whether the notice was put into it
Text(length, truncated) == [length |-> length, truncated |-> truncated]

WebInput(url, response) == [url |-> url, response |-> response]

\* the record of the call retrieve_web_page(url)
retrieve_web_page_call(url, response) ==
    LET op == "retrieve_web_page"
        in == WebInput(url, response)
    IN
    IF response.kind # "response"
    THEN Raised(op, in, response.kind, Msg("", "e"), << "requests.get" >>)
    ELSE IF response.status >= 400
    THEN Raised(op, in, "HTTPError", Msg("", "e"),
            << "requests.get", "raise_for_status" >>)
    ELSE IF response.length <= max_length
    THEN Returned(op, in, Text(response.length, FALSE),
            << "requests.get", "raise_for_status", "markdownify" >>)
    ELSE Returned(op, in,
            Text(max_length \div 2 + notice_length + max_length \div 2, TRUE),
            << "requests.get", "raise_for_status", "markdownify" >>)

retrieve_web_page ==
    \E url \in Urls, response \in Responses :
        /\ last' = retrieve_web_page_call(url, response)
        /\ UNCHANGED <<workdir, default_world, data_store, disk>>

(***************************************************************************)
(* tools.py / dependencies.py WorkDir over the file system.  A path is     *)
(* absolute or relative and has a sequence of parts; a file of the file    *)
(* system is named by the parts of its absolute path.  The process runs in *)
(* the directory cwd; no path of the model is a symbolic link.             *)
(***************************************************************************)
Path(abs, parts) == [abs |-> abs, parts |-> parts]

\* pathlib's p / q: an absolute q replaces p
Join(p, q) == IF q.abs THEN q ELSE Path(p.abs, p.parts \o q.parts)

cwd == << "home" >>

\* the WorkDir locations: a temporary directory, and a relative directory
Locations == { Path(TRUE, << "tmp", "wd" >>), Path(FALSE, << "wd" >>) }

\* the file names the operations are called with
PlainNames == { Path(FALSE, << "test.txt" >>), Path(FALSE, << "file1.txt" >>) }

Names ==
    PlainNames
    \cup { Path(FALSE, << "..", "secret.txt" >>), Path(TRUE, << "etc", "secret.txt" >>) }

\* the file contents: the text of the tests, and a text with a line ending
\* of carriage return and line feed
Contents == { << "Hello, world!" >>, << "a", "\r", "\n", "b" >> }

\* the prefixes of a sequence of parts
Prefixes(parts) == { SubSeq(parts, 1, k) : k \in 0..Len(parts) }

\* the absolute parts of a path, before .. is resolved
Absolute(p) == IF p.abs THEN p.parts ELSE cwd \o p.parts

\* the parts of an absolute path with every .. resolved
RECURSIVE Normalize(_, _)
Normalize(parts, acc) ==
    IF parts = <<>> THEN acc
    ELSE IF Head(parts) = ".."
    THEN Normalize(Tail(parts),
            IF acc = <<>> THEN <<>> ELSE SubSeq(acc, 1, Len(acc) - 1))
    ELSE Normalize(Tail(parts), Append(acc, Head(parts)))

\* the directories that exist once the location is ensured
\* (mkdir(parents=True, exist_ok=True))
Dirs(location) ==
    { <<>>, << "home" >>, << "tmp" >>, << "etc" >> }
    \cup Prefixes(Normalize(Absolute(location), <<>>))

\* the walk of the operating system along the parts of a path: every part
\* before the last is looked up in an existing directory
RECURSIVE Walk(_, _, _)
Walk(parts, acc, dirs) ==
    IF parts = <<>> THEN [ok |-> TRUE, path |-> acc]
    ELSE IF acc \notin dirs THEN [ok |-> FALSE, path |-> acc]
    ELSE IF Head(parts) = ".."
    THEN Walk(Tail(parts),
            IF acc = <<>> THEN <<>> ELSE SubSeq(acc, 1, Len(acc) - 1), dirs)
    ELSE Walk(Tail(parts), Append(acc, Head(parts)), dirs)

\* the file a path names in a file system with the directories of `location`
Target(location, p) == Walk(Absolute(p), <<>>, Dirs(location))

\* the files of the model's file system
DiskPaths ==
    { Target(l, Join(l, n)).path : l \in Locations, n \in Names }

\* a file exists before the process starts
SecretFile == << "etc", "secret.txt" >>

NewDisk(location) ==
    [ location |-> location,
      files |-> [ p \in DiskPaths |->
                    IF p = SecretFile THEN File(<< "root" >>) ELSE Absent(<<>>) ] ]

\* a regular file exists at the target
IsFile(d, target) ==
    target.ok /\ target.path \in DiskPaths /\ d.files[target.path].exists

IsDir(d, target) == target.ok /\ target.path \in Dirs(d.location)

\* reading in text mode with universal newlines: \r\n and \r become \n
RECURSIVE Translate(_)
Translate(text) ==
    IF text = <<>> THEN <<>>
    ELSE IF Head(text) = "\r"
    THEN << "\n" >>
         \o Translate(IF Len(text) > 1 /\ text[2] = "\n"
                      THEN Tail(Tail(text)) ELSE Tail(text))
    ELSE << Head(text) >> \o Translate(Tail(text))

get_file_path(d, file_name) == Join(d.location, file_name)

WorkDirInput(file_path, content) == [file_path |-> file_path, content |-> content]

\* read_file: get_file_path is applied to the name and again to its result
read_file_call(d, file_path) ==
    LET op     == "read_file"
        in     == WorkDirInput(file_path, <<>>)
        target == Target(d.location,
                         get_file_path(d, get_file_path(d, file_path)))
    IN  IF IsFile(d, target)
        THEN Returned(op, in, Translate(d.files[target.path].content),
                << "get_file_path", "get_file_path", "open", "read" >>)
        ELSE Raised(op, in,
                IF IsDir(d, target) THEN "IsADirectoryError"
                ELSE "FileNotFoundError",
                Msg("", "e"), << "get_file_path", "get_file_path", "open" >>)

read_file ==
    \E file_path \in Names :
        /\ last' = read_file_call(disk, file_path)
        /\ UNCHANGED <<workdir, default_world, data_store, disk>>

file_exists_call(d, file_path) ==
    LET target == Target(d.location, get_file_path(d, file_path))
    IN  Returned("check_file_exists", WorkDirInput(file_path, <<>>),
            IsFile(d, target) \/ IsDir(d, target),
            << "get_file_path", "exists" >>)

file_exists ==
    \E file_path \in Names :
        /\ last' = file_exists_call(disk, file_path)
        /\ UNCHANGED <<workdir, default_world, data_store, disk>>

\* open(path, "w") succeeds when the directory of the path exists and the
\* path is no directory
CanWrite(d, target) ==
    /\ target.ok
    /\ target.path \in DiskPaths
    /\ SubSeq(target.path, 1, Len(target.path) - 1) \in Dirs(d.location)
    /\ ~IsDir(d, target)

disk_write_file_call(d, file_path, content) ==
    LET op     == "write_file"
        in     == WorkDirInput(file_path, content)
        target == Target(d.location, get_file_path(d, file_path))
    IN  IF CanWrite(d, target)
        THEN Returned(op, in, None, << "get_file_path", "open", "write" >>)
        ELSE Raised(op, in,
                IF IsDir(d, target) THEN "IsADirectoryError"
                ELSE "FileNotFoundError",
                Msg("", "e"), << "get_file_path", "open" >>)

\* the map of names the callers take the working directory for: per name,
\* the content of the last write, or absent after a delete
Recorded(wd, call) ==
    IF call.outcome # "return" THEN wd
    ELSE IF call.op = "write_file"
    THEN [wd EXCEPT ![call.input.file_path] = File(call.input.content)]
    ELSE [wd EXCEPT ![call.input.file_path] = Absent(<<>>)]

disk_write_file ==
    \E file_path \in Names, content \in Contents :
        LET call   == disk_write_file_call(disk, file_path, content)
            target == Target(disk.location, get_file_path(disk, file_path))
        IN  /\ last' = call
            /\ disk' = IF call.outcome = "return"
                       THEN [disk EXCEPT !.files[target.path] = File(content)]
                       ELSE disk
            /\ workdir' = Recorded(workdir, call)
            /\ UNCHANGED <<default_world, data_store>>

delete_file_call(d, file_path) ==
    LET op     == "delete_file"
        in     == WorkDirInput(file_path, <<>>)
        target == Target(d.location, get_file_path(d, file_path))
    IN  IF IsFile(d, target)
        THEN Returned(op, in, None, << "get_file_path", "unlink" >>)
        ELSE Raised(op, in,
                IF IsDir(d, target) THEN "IsADirectoryError"
                ELSE "FileNotFoundError",
                Msg("", "e"), << "get_file_path", "unlink" >>)

delete_file ==
    \E file_path \in Names :
        LET call   == delete_file_call(disk, file_path)
            target == Target(disk.location, get_file_path(disk, file_path))
        IN  /\ last' = call
            /\ disk' = IF call.outcome = "return"
                       THEN [disk EXCEPT !.files[target.path] = Absent(<<>>)]
                       ELSE disk
            /\ workdir' = Recorded(workdir, call)
            /\ UNCHANGED <<default_world, data_store>>

\* the regular files directly inside the location
FilesInside(d) ==
    { p \in DiskPaths :
        /\ d.files[p].exists
        /\ Len(p) > 0
        /\ SubSeq(p, 1, Len(p) - 1) = Normalize(Absolute(d.location), <<>>) }

\* list_file_names: the names, in the order the directory is iterated in
list_file_names_call(d) ==
    Returned("list_file_names", WorkDirInput(Path(FALSE, <<>>), <<>>),
        { p[Len(p)] : p \in FilesInside(d) }, << "iterdir" >>)

list_file_names ==
    /\ last' = list_file_names_call(disk)
    /\ UNCHANGED <<workdir, default_world, data_store, disk>>

(***************************************************************************)
(* linkml_agent.py validate_data (the variant that reads a data file of    *)
(* the working directory) and LinkMLDependencies.parse_objects_from_file.  *)
(* What load_objects and validate make of an existing file is the          *)
(* environment's choice: the objects validate, some object has validation  *)
(* results, or the file cannot be loaded.                                  *)
(***************************************************************************)
DataFileKinds == {"validates", "results", "unloadable"}

\* the schema argument: a schema text that loads, and one that does not
SchemaArguments ==
    { [yaml |-> YamlMap(<< "id", "name" >>), loads |-> l, gen |-> TRUE] :
        l \in BOOLEAN }

DataFileInput(schema, data_file, kind) ==
    [schema |-> schema, data_file |-> data_file, kind |-> kind]

\* path_to_file.exists() of parse_objects_from_file
data_file_exists(d, data_file) ==
    LET target == Target(d.location, get_file_path(d, data_file))
    IN  IsFile(d, target) \/ IsDir(d, target)

\* the exception classes caught by `except Exception`: AgentRunError is a
\* RuntimeError
ExceptionClasses == {"Exception", "AgentRunError", "ValueError"}

\* the record of the call validate_data(ctx, schema, data_file)
data_file_validate_call(d, schema, data_file, kind) ==
    LET op == "linkml_agent.validate_data"
        in == DataFileInput(schema, data_file, kind)
        raised == IF ~data_file_exists(d, data_file) THEN "AgentRunError"
                  ELSE IF kind = "unloadable" THEN "ValueError"
                  ELSE None
    IN
    IF ~schema.loads
    THEN Returned(op, in, Msg("Schema does not validate: ", "e"),
            << "yaml_loader.loads" >>)
    ELSE IF raised \in ExceptionClasses
    THEN Raised(op, in, "ModelRetry", Msg("Data does not validate: ", raised),
            << "yaml_loader.loads", "parse_objects_from_file" >>)
    ELSE IF kind = "results"
    THEN Returned(op, in, Msg("Data does not validate:\n", "rpt.results"),
            << "yaml_loader.loads", "parse_objects_from_file", "validate" >>)
    ELSE Returned(op, in,
            Msg("{len(instances)} instances all validate successfully", ""),
            << "yaml_loader.loads", "parse_objects_from_file", "validate" >>)

data_file_validate ==
    \E schema \in SchemaArguments, data_file \in Names, kind \in DataFileKinds :
        /\ last' = data_file_validate_call(disk, schema, data_file, kind)
        /\ UNCHANGED <<workdir, default_world, data_store, disk>>

(***************************************************************************)
(* utils.py process_pdf_files.  The call is followed through its loop: one *)
(* step per file of the list.  A path names a file that does not exist or  *)
(* a PDF with a number of pages; an optional argument is given or None.    *)
(***************************************************************************)
\* the longest list, the most pages of a file, the largest limit
MaxFiles == 2
MaxPdfPages == 2
MaxLimit == 2

Pdf(exists, num_pages) == [exists |-> exists, num_pages |-> num_pages]

PdfFiles == { Pdf(FALSE, 0) } \cup { Pdf(TRUE, n) : n \in 0..MaxPdfPages }

\* an argument of type int | None
Given(value) == [given |-> TRUE, value |-> value]
NotGiven == [given |-> FALSE, value |-> 0]

Limits == { NotGiven } \cup { Given(v) : v \in 0..MaxLimit }

\* the truth value of an int | None in a condition: None and 0 are falsy
Truthy(limit) == limit.given /\ limit.value # 0

PdfInput(pdf_paths, max_pages, page_limit_per_file) ==
    [pdf_paths |-> pdf_paths, max_pages |-> max_pages,
     page_limit_per_file |-> page_limit_per_file]

PdfInputs ==
    { PdfInput(paths, m, l) :
        paths \in SeqsUpTo(PdfFiles, MaxFiles), m \in Limits, l \in Limits }

\* the locals of the call: the position in pdf_paths, all_text as the list of
\* (position of the file, pages extracted) of the headers added so far, and
\* total_pages_processed
PdfLocals(i, all_text, total_pages_processed) ==
    [i |-> i, all_text |-> all_text,
     total_pages_processed |-> total_pages_processed]

\* the call after the two assignments before the loop
PdfStarted(input) ==
    [op |-> "process_pdf_files", input |-> input, outcome |-> "none",
     exc |-> None, result |-> PdfLocals(1, <<>>, 0), error |-> Msg("", ""),
     steps |-> <<>>, again |-> FALSE]

Running ==
    /\ last.op = "process_pdf_files"
    /\ last.outcome = "none"

Min(a, b) == IF a < b THEN a ELSE b

\* pages_to_process of the current file (utils.py 59-66)
pages_to_process(input, locals) ==
    LET num_pages == input.pdf_paths[locals.i].num_pages
        limited   == IF Truthy(input.page_limit_per_file)
                     THEN Min(num_pages, input.page_limit_per_file.value)
                     ELSE num_pages
    IN  IF /\ Truthy(input.max_pages)
           /\ locals.total_pages_processed + limited > input.max_pages.value
        THEN input.max_pages.value - locals.total_pages_processed
        ELSE limited

\* the path does not exist: warning and continue
skip_missing_file ==
    /\ Running
    /\ last.result.i <= Len(last.input.pdf_paths)
    /\ ~last.input.pdf_paths[last.result.i].exists
    /\ last' = [last EXCEPT !.result.i = @ + 1,
                            !.steps = Append(@, "continue")]
    /\ UNCHANGED <<workdir, default_world, data_store, disk>>

\* one iteration of the loop on an existing file
process_file ==
    /\ Running
    /\ last.result.i <= Len(last.input.pdf_paths)
    /\ last.input.pdf_paths[last.result.i].exists
    /\ LET pages == pages_to_process(last.input, last.result)
           total == last.result.total_pages_processed + pages
       IN  last' =
             IF pages <= 0
             THEN [last EXCEPT !.outcome = "return",
                               !.steps = Append(@, "break")]
             ELSE IF Truthy(last.input.max_pages)
                     /\ total >= last.input.max_pages.value
             THEN [last EXCEPT
                     !.outcome = "return",
                     !.result.all_text = Append(@, << last.result.i, pages >>),
                     !.result.total_pages_processed = total,
                     !.steps = @ \o << "extract", "break" >>]
             ELSE [last EXCEPT
                     !.result.i = @ + 1,
                     !.result.all_text = Append(@, << last.result.i, pages >>),
                     !.result.total_pages_processed = total,
                     !.steps = Append(@, "extract")]
    /\ UNCHANGED <<workdir, default_world, data_store, disk>>

\* the list is exhausted: return all_text.strip()
return_all_text ==
    /\ Running
    /\ last.result.i > Len(last.input.pdf_paths)
    /\ last' = [last EXCEPT !.outcome = "return"]
    /\ UNCHANGED <<workdir, default_world, data_store, disk>>

(***************************************************************************)
(* Specifications.                                                         *)
(***************************************************************************)
\* the working directory of the agents is a WorkDir at a temporary directory
TmpLocation == Path(TRUE, << "tmp", "wd" >>)

Init ==
    /\ workdir = [f \in FileNames |-> Absent(EmptyText)]
    /\ default_world = EmptyWorld
    /\ data_store = Absent(<<>>)
    /\ disk = NewDisk(TmpLocation)
    /\ last = NoCall

\* the schema tools over the working directory
NextSchema ==
    \/ validate_schema
    \/ validate_then_save_schema

SpecSchema == Init /\ [][NextSchema]_vars

\* the data and ontology tools; the document at data_path is a file of the
\* project that may or may not exist when the process starts
InitStores == {Absent(<<>>), File(<<DocConcept>>)}

InitData ==
    /\ workdir = [f \in FileNames |-> Absent(EmptyText)]
    /\ default_world = EmptyWorld
    /\ data_store \in InitStores
    /\ disk = NewDisk(TmpLocation)
    /\ last = NoCall

Next ==
    \/ validate_owl_ontology
    \/ validate_data

Spec == InitData /\ [][Next]_vars

\* the consistency checker over the fact store
NextMerge ==
    \/ merge_and_check

SpecMerge == InitData /\ [][NextMerge]_vars

\* the lookup tools
NextSearch ==
    \/ search_external_ontology
    \/ search_project_ontology
    \/ retrieve_web_page

SpecSearch == Init /\ [][NextSearch]_vars

\* the operations of a WorkDir object, created at one of the locations
InitWorkDir ==
    /\ workdir = [n \in Names |-> Absent(<<>>)]
    /\ default_world = EmptyWorld
    /\ data_store = Absent(<<>>)
    /\ disk \in {NewDisk(l) : l \in Locations}
    /\ last = NoCall

NextWorkDir ==
    \/ read_file
    \/ file_exists
    \/ disk_write_file
    \/ delete_file
    \/ list_file_names
    \/ data_file_validate

SpecWorkDir == InitWorkDir /\ [][NextWorkDir]_vars

\* the three validators of tools.py
NextValidate ==
    \/ validate_schema
    \/ validate_data
    \/ validate_owl_ontology

SpecValidate == InitData /\ [][NextValidate]_vars

\* one call of process_pdf_files, on any of the inputs
InitPdf ==
    /\ workdir = [f \in FileNames |-> Absent(EmptyText)]
    /\ default_world = EmptyWorld
    /\ data_store = Absent(<<>>)
    /\ disk = NewDisk(TmpLocation)
    /\ last \in {PdfStarted(input) : input \in PdfInputs}

NextPdf ==
    \/ skip_missing_file
    \/ process_file
    \/ return_all_text

SpecPdf == InitPdf /\ [][NextPdf]_vars

(***************************************************************************)
(* Properties of the schema tools.                                         *)
(***************************************************************************)
\* the YAML document is a mapping with `key` among its top-level keys
HasTopLevelKey(doc, key) == doc.kind = "map" /\ key \in Range(doc.val)

\* the messages naming every missing field, id first
ExpectedMissingMsgs(doc) ==
    (IF ~HasTopLevelKey(doc, "id")
        THEN << Msg("Schema does not have a top level id", "") >> ELSE <<>>)
    \o
    (IF ~HasTopLevelKey(doc, "name")
        THEN << Msg("Schema does not have a top level name", "") >> ELSE <<>>)

ParsesAsYaml(s) == s.yaml # YamlError

\* C1: validate_schema on a text that parses as YAML and lacks the top-level
\* key id, the key name or both returns valid=False with one message per
\* missing field, the id message before the name message.
C1_EveryMissingFieldReported ==
    ( /\ last.op = "validate_schema"
      /\ ParsesAsYaml(last.input)
      /\ ExpectedMissingMsgs(last.input.yaml) # <<>> )
    => ( /\ last.outcome = "return"
         /\ last.result = ValidationResult(FALSE,
                              ExpectedMissingMsgs(last.input.yaml)) )

\* C2: validate_schema on a document with top-level id and name that loads
\* as a SchemaDefinition returns valid=True with no message.
C2_WellFormedSchemaIsValid ==
    ( /\ last.op = "validate_schema"
      /\ HasTopLevelKey(last.input.yaml, "id")
      /\ HasTopLevelKey(last.input.yaml, "name")
      /\ last.input.loads )
    => ( /\ last.outcome = "return"
         /\ last.result = ValidationResult(TRUE, <<>>) )

C2_Witness ==
    /\ last.op = "validate_schema"
    /\ HasTopLevelKey(last.input.yaml, "id")
    /\ HasTopLevelKey(last.input.yaml, "name")
    /\ last.input.loads
    /\ last.result.valid

\* C3: validate_schema on a text that is not YAML returns valid=False, its
\* first and only message says the schema is not valid YAML, and the call
\* performs no step after yaml.safe_load.
C3_InvalidYamlStopsValidation ==
    ( /\ last.op = "validate_schema"
      /\ ~ParsesAsYaml(last.input) )
    => ( /\ last.outcome = "return"
         /\ ~last.result.valid
         /\ Len(last.result.info_messages) = 1
         /\ last.result.info_messages[1].text = "Schema is not valid yaml: "
         /\ last.steps = << "yaml.safe_load" >> )

C3_Witness ==
    /\ last.op = "validate_schema"
    /\ ~ParsesAsYaml(last.input)
    /\ last.outcome = "return"
    /\ ~last.result.valid

\* every check of validate_then_save_schema, in the order the code runs them
AllSchemaChecks ==
    << "yaml.safe_load", "id in", "name in", "yaml_loader.loads",
       "gen.serialize" >>

\* C4: a call of validate_then_save_schema that fails at any step leaves
\* every file of the working directory as it was; the working directory
\* changes only in a call that passed every check, and then only the target
\* file changes, to the schema text.
C4_SaveIsAllOrNothing ==
    [][ /\ ( last'.op = "validate_then_save_schema" /\ last'.outcome = "raise" )
           => workdir' = workdir
        /\ ( last'.op = "validate_then_save_schema" /\ workdir' # workdir )
           => ( /\ last'.outcome = "return"
                /\ SubSeq(last'.steps, 1, Len(AllSchemaChecks)) = AllSchemaChecks
                /\ last'.steps[Len(last'.steps)] = "write_file"
                /\ \A f \in FileNames :
                      workdir'[f] =
                        IF f = last'.input.save_to_file
                        THEN File(last'.input.schema_as_str)
                        ELSE workdir[f] )
      ]_vars

\* a failed call whose target file exists with another content
C4_Witness ==
    /\ last.op = "validate_then_save_schema"
    /\ last.outcome = "raise"
    /\ last.input.save_to_file # ""
    /\ workdir[last.input.save_to_file].exists
    /\ workdir[last.input.save_to_file].content # last.input.schema_as_str

(***************************************************************************)
(* Properties of the ontology and data tools.                              *)
(***************************************************************************)
\* the call failed: it raised, or it returned valid=False
Failed(call) == call.outcome = "raise" \/ ~call.result.valid

\* C5: the verdict of a validate_owl_ontology call is the verdict the same
\* content gets in a fresh world: it does not depend on earlier calls.
C5_VerdictDependsOnContentOnly ==
    last.op = "validate_owl_ontology"
    => last.result = validate_owl_ontology_call(EmptyWorld, last.input).result

C7_FailureKeepsStore ==
    [][ ( last'.op \in {"validate_data", "validate_owl_ontology"}
          /\ Failed(last') )
        => data_store' = data_store ]_vars

\* a failed consistency check while the store holds facts
C7_Witness ==
    /\ last.op = "validate_owl_ontology"
    /\ Failed(last)
    /\ data_store.exists

\* C8: when some pair of the batch names a class the schema does not
\* declare, validate_data raises ModelRetry naming exactly that class, and
\* the instance of that pair is not parsed.
C8_UnknownClassIsNamed ==
    ( /\ last.op = "validate_data"
      /\ \E i \in 1..Len(last.input) : last.input[i][1] \notin DeclaredClasses )
    => ( /\ last.outcome = "raise"
         /\ last.exc = "ModelRetry"
         /\ \E i \in 1..Len(last.input) :
              /\ last.input[i][1] \notin DeclaredClasses
              /\ last.error = Msg("Class not in schema: ", last.input[i][1])
              /\ Len(SelectSeq(last.steps,
                        LAMBDA step : step = "rdflib_loader.loads")) = i - 1 )

\* C9: content declaring a class equivalent to its own complement is
\* reported inconsistent (valid=False), and content that parses and is
\* consistent is reported valid.
C9_InconsistencyDetected ==
    ( /\ last.op = "validate_owl_ontology"
      /\ ~ParsingError(Unfenced(last.input)) )
    => IF DocNotItself \in Axioms(Unfenced(last.input))
       THEN last.result = ValidationResult(FALSE,
                << Msg("OWL ontology is logically inconsistent.", "") >>)
       ELSE last.result = ValidationResult(TRUE, <<>>)

FencesBefore(text, p) == Cardinality({q \in 1..(p - 1) : text[q] = Fence})

\* position p lies inside a fenced block: after an opening fence (an odd
\* number of fences before it) that has its closing fence after p
InsideBlock(text, p) ==
    /\ text[p] # Fence
    /\ FencesBefore(text, p) % 2 = 1
    /\ \E q \in (p + 1)..Len(text) : text[q] = Fence

\* the language tag right after an opening fence
IsTag(text, p) == text[p] = Tag /\ p > 1 /\ text[p - 1] = Fence

\* the documents inside the fenced blocks of text, in their order
RECURSIVE InnerPieces(_, _)
InnerPieces(text, p) ==
    IF p > Len(text) THEN <<>>
    ELSE ( IF InsideBlock(text, p) /\ ~IsTag(text, p) /\ text[p] \notin Whitespace
           THEN << text[p] >> ELSE <<>> )
         \o InnerPieces(text, p + 1)

HasBlock(text) == \E p \in 1..Len(text) : FencesBefore(text, p + 1) >= 2

\* C11: the text handed to the loader is, for content with fenced blocks,
\* the inner texts of the blocks in their original order and nothing from
\* outside the fences, and, for content without a fence, the content without
\* its surrounding white space; a fresh world that is given one well-formed
\* document this way loads exactly that document.
C11_FencesStripped ==
    [][ last'.op = "validate_owl_ontology"
        => LET content == last'.input
               text    == Unfenced(content)
           IN  /\ HasBlock(content)
                  => Solid(text) = InnerPieces(content, 1)
               /\ Fence \notin Range(content)
                  => ( /\ Solid(text) = Solid(content)
                       /\ IsSlice(text, content)
                       /\ text[1] \notin Whitespace
                       /\ text[Len(text)] \notin Whitespace )
               /\ ( /\ ~default_world.loaded
                     /\ HasBlock(content)
                     /\ Len(InnerPieces(content, 1)) = 1
                     /\ InnerPieces(content, 1)[1] \in WellFormedDocs )
                  => default_world' =
                       [loaded |-> TRUE, axioms |-> Range(InnerPieces(content, 1))]
      ]_vars

\* a call on content with two fenced blocks
C11_Witness ==
    /\ last.op = "validate_owl_ontology"
    /\ FencesBefore(last.input, Len(last.input) + 1) = 4
    /\ Len(InnerPieces(last.input, 1)) = 2

\* C12: a validate_owl_ontology call that directly follows a call with the
\* same content ends the same way: same valid flag, same messages.
C12_RepeatedCheckSameVerdict ==
    [][ ( /\ last.op = "validate_owl_ontology"
          /\ last'.op = "validate_owl_ontology"
          /\ last'.input = last.input )
        => ( /\ last'.outcome = last.outcome
             /\ last'.result = last.result )
      ]_vars

\* a repeated call on content the first call loaded
C12_Witness ==
    /\ last.op = "validate_owl_ontology"
    /\ last.again
    /\ default_world.loaded
    /\ Axioms(Unfenced(last.input)) = default_world.axioms

(***************************************************************************)
(* Properties of validate_data.                                            *)
(***************************************************************************)
\* the batch is made of well-formed Person instances only
PersonsOnly(data) ==
    /\ data # <<>>
    /\ \A i \in 1..Len(data) :
          data[i][1] = "Person" /\ data[i][2] \in {ClarkKent, ClarkKent330}

\* C13: with the Person schema (age between 0 and 120), a batch of
\* well-formed Person instances one of which states age 330 returns a result
\* that is not valid and carries a violation message; a batch in which every
\* instance is the one with age 30 and full_name Clark Kent returns
\* valid=True.
C13_AgeBoundsScenario ==
    ( last.op = "validate_data" /\ PersonsOnly(last.input) )
    => ( /\ last.outcome = "return"
         /\ IF \E i \in 1..Len(last.input) : last.input[i][2] = ClarkKent330
            THEN ~last.result.valid /\ last.result.info_messages # <<>>
            ELSE last.result.valid )

\* the batch of test_validate_data_invalid
C13_Witness ==
    /\ last.op = "validate_data"
    /\ last.input = << <<"Person", ClarkKent330>> >>
    /\ ~last.result.valid

\* C14: a validate_data call that succeeds returns valid=True together with
\* a summary message stating the number of instances validated.
C14_SuccessCarriesCount ==
    ( /\ last.op = "validate_data"
      /\ last.outcome = "return"
      /\ last.result.valid )
    => ( /\ Len(last.result.info_messages) = 1
         /\ last.result.info_messages[1].text
              = "{len(instances)} instances all validate successfully"
         /\ last.result.info_messages[1].arg = Len(last.input) )

\* two pairs of the batch name the same class and state the same identifier
DuplicateId(data) ==
    \E i, j \in 1..Len(data) :
        /\ i < j
        /\ data[i][1] = data[j][1]
        /\ data[i][2].syntax_ok /\ data[j][2].syntax_ok
        /\ data[i][2].id = data[j][2].id

\* C15: a batch holding two instances of a class with the same identifier
\* does not validate: the call fails.
C15_DuplicateIdRejected ==
    ( last.op = "validate_data" /\ DuplicateId(last.input) )
    => Failed(last)

(***************************************************************************)
(* Properties of the error classification.                                 *)
(***************************************************************************)
\* the schema text is malformed: it does not parse, lacks id or name, or
\* fails the structural load
MalformedSchema(s) ==
    \/ ~ParsesAsYaml(s)
    \/ ~HasTopLevelKey(s.yaml, "id")
    \/ ~HasTopLevelKey(s.yaml, "name")
    \/ ~s.loads

\* C16: malformed schema input ends validate_then_save_schema with an error
\* that is fatal: an exception that is not the retry signal ModelRetry.
C16_SchemaFailureIsFatal ==
    ( /\ last.op = "validate_then_save_schema"
      /\ MalformedSchema(last.input.schema_as_str) )
    => ( /\ last.outcome = "raise"
         /\ ~IsModelRetry(last.exc) )

\* C17: when the reasoner reports an inconsistency, the failure returned by
\* validate_owl_ontology carries the reasoner's explanation: some message has
\* the text of the reasoner's error formatted into it.
C17_InconsistencyIsExplained ==
    ( /\ last.op = "validate_owl_ontology"
      /\ "sync_reasoner" \in Range(last.steps)
      /\ ~last.result.valid )
    => \E i \in 1..Len(last.result.info_messages) :
          last.result.info_messages[i].arg = "e"

(***************************************************************************)
(* Properties of the lookup tools.                                         *)
(***************************************************************************)
SearchOps == {"search_external_ontology", "search_project_ontology"}

\* C18: whenever adapter selection, search or label lookup fails, the search
\* returns an empty list to the caller and raises nothing.
C18_SearchIsBestEffort ==
    ( last.op \in SearchOps /\ last.input.adapter.fails # None )
    => ( /\ last.outcome = "return"
         /\ last.result = <<>> )

\* the HTTP request failed: no response, or a status outside 200..299
TransportError(response) ==
    response.kind # "response" \/ response.status \notin 200..299

\* C19: when the HTTP request fails (connection error, timeout, non-2xx
\* status) retrieve_web_page returns an empty text and raises nothing.
C19_TransportErrorGivesEmpty ==
    ( last.op = "retrieve_web_page" /\ TransportError(last.input.response) )
    => ( /\ last.outcome = "return"
         /\ last.result = Text(0, FALSE) )

\* C20: a search that does not fail returns at most n pairs, the first
\* pairs of the adapter's full list in the adapter's order;
\* search_project_ontology does so with the project data path as the
\* ontology reference.
C20_AtMostNInOrder ==
    ( last.op \in SearchOps /\ last.input.adapter.fails = None )
    => ( /\ last.outcome = "return"
         /\ Len(last.result) <= last.input.n
         /\ Len(last.result) <= Len(last.input.adapter.results)
         /\ last.result
              = SubSeq(last.input.adapter.results, 1, Len(last.result))
         /\ last.op = "search_project_ontology"
              => last.input.ontology = data_path )

\* C21: a page text of at most max_length characters is returned unchanged;
\* a longer one is returned as its first half-maximum characters, the notice
\* and its last half-maximum characters, and the returned text has fewer
\* than 11000 characters and stays below the maximum the notice announces.
C21_TruncatedStaysBelowMax ==
    ( last.op = "retrieve_web_page" /\ last.outcome = "return" )
    => IF last.input.response.length <= max_length
       THEN last.result = Text(last.input.response.length, FALSE)
       ELSE /\ last.result.truncated
            /\ last.result.length
                 = max_length \div 2 + notice_length + max_length \div 2
            /\ last.result.length < 11000
            /\ last.result.length < max_length

(***************************************************************************)
(* Properties of WorkDir.                                                  *)
(***************************************************************************)
\* C22: for plain file names WorkDir behaves as a map from names to
\* contents: check_file_exists(name) is true exactly when the last operation
\* on name was a write, and read_file(name) then returns the content of
\* that write.
C22_WorkDirIsAMap ==
    /\ ( last.op = "check_file_exists" /\ last.input.file_path \in PlainNames )
       => last.result = workdir[last.input.file_path].exists
    /\ ( /\ last.op = "read_file"
         /\ last.input.file_path \in PlainNames
         /\ workdir[last.input.file_path].exists )
       => ( /\ last.outcome = "return"
            /\ last.result = workdir[last.input.file_path].content )

\* the directory of a file
Directory(p) == SubSeq(p, 1, Len(p) - 1)

\* C23: no operation creates, overwrites or deletes a file outside the
\* WorkDir location, read_file returns the content of no file outside it,
\* and list_file_names returns exactly the names of the files directly
\* inside it.
C23_OperationsStayInside ==
    [][ LET inside == Normalize(Absolute(disk.location), <<>>)
        IN  /\ \A p \in DiskPaths :
                  Directory(p) # inside => disk'.files[p] = disk.files[p]
            /\ ( last'.op = "read_file" /\ last'.outcome = "return" )
               => \E p \in DiskPaths :
                     /\ Directory(p) = inside
                     /\ disk.files[p].exists
                     /\ last'.result = Translate(disk.files[p].content)
            /\ last'.op = "list_file_names"
               => last'.result
                    = { p[Len(p)] : p \in { q \in DiskPaths :
                            disk.files[q].exists /\ Directory(q) = inside } }
      ]_vars

(***************************************************************************)
(* Further properties of the schema tools.                                 *)
(***************************************************************************)
\* the top-level fields an error message of the schema tools names
FieldsNamed(text) ==
    CASE text = "Schema does not have a top level id"   -> {"id"}
      [] text = "Schema does not have a top level name" -> {"name"}
      [] OTHER                                          -> {}

\* C24: validate_then_save_schema on a mapping that has neither a top-level
\* id nor a top-level name fails, and the failure names both fields.
C24_SaveNamesEveryMissingField ==
    ( /\ last.op = "validate_then_save_schema"
      /\ last.input.schema_as_str.yaml.kind = "map"
      /\ ~HasTopLevelKey(last.input.schema_as_str.yaml, "id")
      /\ ~HasTopLevelKey(last.input.schema_as_str.yaml, "name") )
    => ( /\ last.outcome = "raise"
         /\ FieldsNamed(last.error.text) = {"id", "name"} )

(***************************************************************************)
(* Further properties of validate_data.                                    *)
(***************************************************************************)
\* the pair fails: unknown class, unparseable instance, or an age outside
\* the bounds of the schema
FailingPair(pair) ==
    \/ pair[1] \notin DeclaredClasses
    \/ ~pair[2].syntax_ok
    \/ pair[2].age < minimum_value
    \/ pair[2].age > maximum_value

\* the number of times `step` occurs in steps
Count(steps, step) == Len(SelectSeq(steps, LAMBDA x : x = step))

\* C25: validate_data never returns valid=True for a batch that holds a
\* failing pair, whatever its position; valid=True is returned only after
\* every instance of the batch was parsed and checked, none of them failing
\* (so also for the empty batch).
C25_BatchFailsAsAWhole ==
    last.op = "validate_data"
    => ( /\ ( \E i \in 1..Len(last.input) : FailingPair(last.input[i]) )
            => ~( last.outcome = "return" /\ last.result.valid )
         /\ ( last.outcome = "return" /\ last.result.valid )
            => ( /\ \A i \in 1..Len(last.input) : ~FailingPair(last.input[i])
                 /\ Count(last.steps, "rdflib_loader.loads") = Len(last.input)
                 /\ Count(last.steps, "validate") = Len(last.input) )
         /\ ( \A i \in 1..Len(last.input) : ~FailingPair(last.input[i]) )
            => ( last.outcome = "return" /\ last.result.valid ) )

\* a batch whose second pair fails after a first pair that passes
C25_Witness ==
    /\ last.op = "validate_data"
    /\ Len(last.input) = 2
    /\ ~FailingPair(last.input[1])
    /\ FailingPair(last.input[2])
    /\ Failed(last)

(***************************************************************************)
(* Properties of process_pdf_files.                                        *)
(***************************************************************************)
PdfReturned == last.op = "process_pdf_files" /\ last.outcome = "return"

\* C26: when max_pages is given, the pages extracted over all files do not
\* exceed it, and when page_limit_per_file is given, no file contributes
\* more pages than it.
C26_PageBudgetRespected ==
    PdfReturned
    => ( /\ last.input.max_pages.given
            => last.result.total_pages_processed <= last.input.max_pages.value
         /\ last.input.page_limit_per_file.given
            => \A k \in 1..Len(last.result.all_text) :
                  last.result.all_text[k][2]
                    <= last.input.page_limit_per_file.value )

\* the positions of the existing files of the list, in order
RECURSIVE ExistingFrom(_, _)
ExistingFrom(pdf_paths, i) ==
    IF i > Len(pdf_paths) THEN <<>>
    ELSE (IF pdf_paths[i].exists THEN << i >> ELSE <<>>)
         \o ExistingFrom(pdf_paths, i + 1)

\* the max_pages budget has been reached
BudgetReached ==
    /\ last.input.max_pages.given
    /\ last.result.total_pages_processed >= last.input.max_pages.value

\* C27: unless the max_pages budget has been reached, the call returns with
\* a header for every existing file of the list, in the order of the list:
\* only missing files are skipped.
C27_EveryExistingFileProcessed ==
    ( PdfReturned /\ ~BudgetReached )
    => [ k \in 1..Len(last.result.all_text) |-> last.result.all_text[k][1] ]
         = ExistingFrom(last.input.pdf_paths, 1)

(***************************************************************************)
(* Properties of the results.                                              *)
(***************************************************************************)
\* C28: validate_schema returns a ValidationResult for every text: it never
\* raises.
C28_ValidateSchemaNeverRaises ==
    last.op = "validate_schema" => last.outcome = "return"

Validators == {"validate_schema", "validate_data", "validate_owl_ontology"}

\* C29: every ValidationResult returned by validate_schema, validate_data
\* and validate_owl_ontology has messages exactly when it is not valid.
C29_MessagesIffInvalid ==
    ( last.op \in Validators /\ last.outcome = "return" )
    => ( last.result.valid <=> last.result.info_messages = <<>> )

\* a schema without id and name: not valid, two messages
C29_Witness ==
    /\ last.op = "validate_schema"
    /\ last.outcome = "return"
    /\ ~last.result.valid
    /\ Len(last.result.info_messages) = 2

\* C30: linkml_agent's validate_data on a data file name under which the
\* working directory holds nothing ends with AgentRunError, never with
\* ModelRetry and never with a returned string.
C30_MissingFileIsAgentRunError ==
    ( /\ last.op = "linkml_agent.validate_data"
      /\ ~data_file_exists(disk, last.input.data_file) )
    => ( /\ last.outcome = "raise"
         /\ last.exc = "AgentRunError" )

====
